---------------------------- MODULE Spec2Model ----------------------------
(***************************************************************************)
(* Model of the quantization-parameter observer of compressed-tensors:    *)
(* MovingAverageMinMaxObserver (observers/min_max.py) driven by a stream   *)
(* of observed tensors, together with the quantization-parameter          *)
(* calculator it hands its running statistics to; the names of checkpoint  *)
(* entries (utils/safetensors_load.py); and the initialization of a module *)
(* for quantization (lifecycle/initialize.py).  Each component has its own *)
(* specification over the shared state.                                    *)
(*                                                                         *)
(* Numbers: tensor elements and running statistics are exact rationals,   *)
(* a pair <<n, d>> with d > 0 in lowest terms.  Floating-point rounding    *)
(* of the host runtime is not modelled.                                   *)
(***************************************************************************)
EXTENDS Integers, Sequences, FiniteSets, TLC

(***************************************************************************)
(* Bounds of the model                                                     *)
(***************************************************************************)
\* number of calculate_qparams calls made on one observer
MaxCalls == 2

\* the observed 2-d tensors, as rows of integers: constant and mixed ones of
\* one to three columns and of one or two rows
ObservedRows ==
    { << <<0>> >>, << <<1>> >>, << <<-1>> >>,
      << <<1, 1>> >>, << <<-1, 1>> >>, << <<0, -1>> >>,
      << <<2, -1>> >>,
      << <<1>>, <<-1>> >>, << <<0>>, <<1>> >>,
      << <<1, -1>>, <<0, 1>> >>,
      << <<1, 1, 1>> >>, << <<-1, 0, 1>> >>, << <<1, 0, -1>> >> }

(***************************************************************************)
(* Exact rational arithmetic                                               *)
(***************************************************************************)
Abs(n) == IF n < 0 THEN -n ELSE n

RECURSIVE Gcd(_, _)
Gcd(a, b) == IF b = 0 THEN a ELSE Gcd(b, a % b)

\* the rational n/d (d # 0) in lowest terms with a positive denominator
Rat(n, d) ==
    LET g == Gcd(Abs(n), Abs(d))
        s == IF d < 0 THEN -1 ELSE 1
    IN  <<(s * n) \div g, (s * d) \div g>>

RInt(n) == <<n, 1>>

RIsInt(a) == a[2] = 1

RNeg(a) == <<-a[1], a[2]>>

RAbs(a) == <<Abs(a[1]), a[2]>>

RAdd(a, b) ==
    LET g == Gcd(a[2], b[2])
    IN  Rat(a[1] * (b[2] \div g) + b[1] * (a[2] \div g), (a[2] \div g) * b[2])

RSub(a, b) == RAdd(a, RNeg(b))

RMul(a, b) ==
    LET g1 == Gcd(Abs(a[1]), b[2])
        g2 == Gcd(Abs(b[1]), a[2])
    IN  IF a[1] = 0 \/ b[1] = 0 THEN <<0, 1>>
        ELSE <<(a[1] \div g1) * (b[1] \div g2), (a[2] \div g2) * (b[2] \div g1)>>

\* a / b for b # 0
RDiv(a, b) ==
    RMul(a, IF b[1] < 0 THEN <<-b[2], -b[1]>> ELSE <<b[2], b[1]>>)

\* n1/d1 <= n2/d2 for n1, n2 >= 0 and d1, d2 > 0, by comparing the integer
\* parts and then the reciprocals of the fractional parts (no products)
RECURSIVE LeqPos(_, _, _, _)
LeqPos(n1, d1, n2, d2) ==
    IF n1 \div d1 # n2 \div d2 THEN n1 \div d1 < n2 \div d2
    ELSE IF n1 % d1 = 0 THEN TRUE
    ELSE IF n2 % d2 = 0 THEN FALSE
    ELSE LeqPos(d2, n2 % d2, d1, n1 % d1)

RLe(a, b) ==
    IF a[1] <= 0 /\ b[1] >= 0 THEN TRUE
    ELSE IF a[1] > 0 /\ b[1] <= 0 THEN FALSE
    ELSE IF a[1] > 0 THEN LeqPos(a[1], a[2], b[1], b[2])
    ELSE LeqPos(-b[1], b[2], -a[1], a[2])

RLt(a, b) == ~RLe(b, a)

RMin(a, b) == IF RLe(a, b) THEN a ELSE b

RMax(a, b) == IF RLe(a, b) THEN b ELSE a

\* floor of a rational
RFloor(a) ==
    IF a[1] >= 0 THEN a[1] \div a[2] ELSE -((-a[1] + a[2] - 1) \div a[2])

\* torch.round: to the nearest integer, ties to the even one
RRound(a) ==
    LET f == RFloor(a)
        r == a[1] - f * a[2]
    IN  IF 2 * r < a[2] THEN f
        ELSE IF 2 * r > a[2] THEN f + 1
        ELSE IF f % 2 = 0 THEN f ELSE f + 1


(***************************************************************************)
(* Tensors: a record [nd, v], nd the number of dimensions (0 for a scalar  *)
(* tensor, 2 for a matrix) and v the rows, each a sequence of rationals.   *)
(* A 0-d tensor holds its single element as v[1][1].                       *)
(***************************************************************************)
\* a function on 1..n as the tuple of its values
Tup(f) == f \o <<>>

Rows(t) == Len(t.v)

Cols(t) == Len(t.v[1])

Min2(a, b) == IF a <= b THEN a ELSE b

Max2(a, b) == IF a <= b THEN b ELSE a

\* the 2-d tensors a caller may observe
Observed ==
    { [nd |-> 2,
       v  |-> Tup([r \in 1..Len(m) |->
                 Tup([c \in 1..Len(m[r]) |-> RInt(m[r][c])])])] :
      m \in ObservedRows }

\* reduce_dims: Optional[Tuple[int]]; <<>> is None, <<dims>> a given tuple
ReduceDims == { <<>>, << <<0>> >>, << <<1>> >> }

\* Python truthiness of reduce_dims: None and the empty tuple are falsy
Falsy(reduce_dims) == reduce_dims = <<>> \/ reduce_dims[1] = <<>>

\* observed[:, i : i + group_size]: the slice stops at the last column
SliceCols(t, i, group_size) ==
    [nd |-> 2,
     v  |-> Tup([r \in 1..Rows(t) |->
               SubSeq(t.v[r], i + 1, Min2(i + group_size, Cols(t)))])]

RMinSet(S) == CHOOSE m \in S : \A x \in S : RLe(m, x)

RMaxSet(S) == CHOOSE m \in S : \A x \in S : RLe(x, m)

Elements(t) == { t.v[r][c] : r \in 1..Rows(t), c \in 1..Cols(t) }

\* the elements reduced into position (r, c) when reducing over dims
Reduced(t, dims, r, c) ==
    LET has(d) == \E k \in 1..Len(dims) : dims[k] = d
    IN  { t.v[rr][cc] :
            rr \in (IF has(0) THEN 1..Rows(t) ELSE {r}),
            cc \in (IF has(1) THEN 1..Cols(t) ELSE {c}) }

ReducedShape(t, dims) ==
    LET has(d) == \E k \in 1..Len(dims) : dims[k] = d
    IN  <<IF has(0) THEN 1 ELSE Rows(t), IF has(1) THEN 1 ELSE Cols(t)>>

\* torch.amin(t, dim=dims, keepdims=True)
amin(t, dims) ==
    LET sh == ReducedShape(t, dims)
    IN  [nd |-> 2,
         v  |-> Tup([r \in 1..sh[1] |-> Tup([c \in 1..sh[2] |->
                   RMinSet(Reduced(t, dims, r, c))])])]

\* torch.amax(t, dim=dims, keepdims=True)
amax(t, dims) ==
    LET sh == ReducedShape(t, dims)
    IN  [nd |-> 2,
         v  |-> Tup([r \in 1..sh[1] |-> Tup([c \in 1..sh[2] |->
                   RMaxSet(Reduced(t, dims, r, c))])])]

\* torch.aminmax(t): the global minimum and maximum as 0-d tensors
aminmax(t) ==
    << [nd |-> 0, v |-> << <<RMinSet(Elements(t))>> >>],
       [nd |-> 0, v |-> << <<RMaxSet(Elements(t))>> >>] >>

\* the current-call minimum and maximum of a tensor (or of a group's slice)
CurrentMinMax(t, reduce_dims) ==
    IF Falsy(reduce_dims) THEN aminmax(t)
    ELSE <<amin(t, reduce_dims[1]), amax(t, reduce_dims[1])>>

\* torch broadcasting of two operands: a 0-d tensor broadcasts with all,
\* two matrices when each dimension agrees or is 1 in one of them
Broadcastable(a, b) ==
    \/ a.nd = 0
    \/ b.nd = 0
    \/ /\ (Rows(a) = Rows(b) \/ Rows(a) = 1 \/ Rows(b) = 1)
       /\ (Cols(a) = Cols(b) \/ Cols(a) = 1 \/ Cols(b) = 1)

At(t, r, c) == t.v[IF Rows(t) = 1 THEN 1 ELSE r][IF Cols(t) = 1 THEN 1 ELSE c]

\* the shape two broadcastable operands broadcast to
BroadcastRows(a, b) == Max2(Rows(a), Rows(b))

BroadcastCols(a, b) == Max2(Cols(a), Cols(b))

SameShape(a, b) == a.nd = b.nd /\ Rows(a) = Rows(b) /\ Cols(a) = Cols(b)

\* torch.cat(ts, dim=1) is defined for a non-empty list of tensors of at
\* least two dimensions that agree in every dimension but dim 1
CatOk(ts) ==
    /\ Len(ts) > 0
    /\ \A k \in 1..Len(ts) : ts[k].nd = 2 /\ Rows(ts[k]) = Rows(ts[1])

RECURSIVE CatRow(_, _, _)
CatRow(ts, r, k) ==
    IF k > Len(ts) THEN <<>> ELSE ts[k].v[r] \o CatRow(ts, r, k + 1)

cat(ts) ==
    [nd |-> 2, v |-> Tup([r \in 1..Rows(ts[1]) |-> CatRow(ts, r, 1)])]


(***************************************************************************)
(* QuantizationArgs (quant_args.py): the fields the observer reads.  An    *)
(* Optional[int] is <<>> for None and <<n>> for a given n.                 *)
(***************************************************************************)
Strategies == { "tensor", "channel", "group" }

GroupSizes == { <<>>, <<-1>>, <<0>>, <<1>>, <<2>> }

NumBits == { 4, 8 }

\* group_size is read by the GROUP strategy alone: the other strategies are
\* given none
QuantizationArgs ==
    { a \in [num_bits : NumBits, symmetric : BOOLEAN, strategy : Strategies,
             group_size : GroupSizes] :
        a.strategy = "group" \/ a.group_size = <<>> }

(***************************************************************************)
(* The quantization-parameter calculator, calculate_qparams of            *)
(* observers/helpers.py: from min_val, max_val and the arguments to        *)
(* (scale, zero_point), elementwise.                                       *)
(***************************************************************************)
\* denominator of the epsilon floor of a scale, 2^-23
EpsDen == 8388608

Eps == <<1, EpsDen>>

quant_min(args) == -(2 ^ (args.num_bits - 1))

quant_max(args) == 2 ^ (args.num_bits - 1) - 1

\* clamp of a scale to the epsilon floor: s when s >= Eps, else Eps
\* (s < Eps iff s[1] * EpsDen < s[2], compared without the product)
ClampEps(s) == IF s[1] <= (s[2] - 1) \div EpsDen THEN Eps ELSE s

ClampInt(z, lo, hi) == IF z < lo THEN lo ELSE IF z > hi THEN hi ELSE z

SymmetricScale(mn, mx, args) ==
    ClampEps(RDiv(RMax(RAbs(mn), RAbs(mx)), RInt(2 ^ (args.num_bits - 1) - 1)))

AsymmetricScale(mn, mx, args) ==
    ClampEps(RDiv(RSub(mx, mn), RInt(quant_max(args) - quant_min(args))))

\* round(quant_min - min_val / scale) clamped to [quant_min, quant_max], for
\* scale > 0.  The two saturated cases are decided before the quotient is
\* formed (min_val >= 0 gives a value <= quant_min; -min_val >= scale *
\* (quant_max - quant_min) gives a value >= quant_max), which is the same
\* value as clamping after rounding because rounding is monotone.
AsymmetricZeroPoint(mn, scale, args) ==
    IF mn[1] >= 0 THEN quant_min(args)
    ELSE IF RLe(RMul(RInt(quant_max(args) - quant_min(args)), scale), RNeg(mn))
         THEN quant_max(args)
    ELSE ClampInt(RRound(RSub(RInt(quant_min(args)), RDiv(mn, scale))),
                  quant_min(args), quant_max(args))

Scale(mn, mx, args) ==
    IF args.symmetric THEN SymmetricScale(mn, mx, args)
    ELSE AsymmetricScale(mn, mx, args)

ZeroPoint(mn, mx, args) ==
    IF args.symmetric THEN 0
    ELSE AsymmetricZeroPoint(mn, AsymmetricScale(mn, mx, args), args)

\* <<scale, zero_point>>, two tensors of the operands' broadcast shape
calculate_qparams(min_vals, max_vals, args) ==
    << [nd |-> Max2(min_vals.nd, max_vals.nd),
        v  |-> Tup([r \in 1..BroadcastRows(min_vals, max_vals) |->
                  Tup([c \in 1..BroadcastCols(min_vals, max_vals) |->
                     Scale(At(min_vals, r, c), At(max_vals, r, c), args)])])],
       [nd |-> Max2(min_vals.nd, max_vals.nd),
        v  |-> Tup([r \in 1..BroadcastRows(min_vals, max_vals) |->
                  Tup([c \in 1..BroadcastCols(min_vals, max_vals) |->
                     RInt(ZeroPoint(At(min_vals, r, c), At(max_vals, r, c),
                                    args))])])] >>


(***************************************************************************)
(* MovingAverageMinMaxObserver (observers/min_max.py)                      *)
(***************************************************************************)
VARIABLES
    quantization_args,   \* self.quantization_args
    averaging_arg,       \* the averaging_constant passed to __init__, if any
    averaging_constant,  \* self.averaging_constant, a rational
    min_val,             \* self.min_val: None, a tensor, or a dict of tensors
    max_val,             \* self.max_val
    last_observed,       \* the last call's argument observed
    last_reduce_dims,    \* the last call's argument reduce_dims
    cur_min,             \* the last call's local min_val (per group for GROUP)
    cur_max,             \* the last call's local max_val
    ret,                 \* what the last call returned or raised
    calls                \* number of calls made so far

\* the state of the other two components of the model, which an observer
\* never touches: the weight index of a checkpoint (utils/safetensors_load.py)
\* and a module being initialized (lifecycle/initialize.py)
VARIABLES
    weight_mappings,     \* get_weight_mappings(model_path): items [name, path]
    names_call,          \* the last call made to safetensors_load.py
    module,              \* the torch module handed to the lifecycle
    lifecycle_call       \* the last call made to lifecycle/initialize.py

observer_vars == <<quantization_args, averaging_arg, averaging_constant,
                   min_val, max_val, last_observed, last_reduce_dims,
                   cur_min, cur_max, ret, calls>>

names_vars == <<weight_mappings, names_call>>

lifecycle_vars == <<module, lifecycle_call>>

vars == <<observer_vars, names_vars, lifecycle_vars>>

\* no call made yet
NoCall == [fn |-> "", args |-> <<>>, status |-> "none", result |-> <<>>]

\* no checkpoint is open
NoCheckpoint == weight_mappings = <<>> /\ names_call = NoCall

\* no module is being initialized
NoModule == module = <<>> /\ lifecycle_call = NoCall

\* torch.Tensor(): the empty 1-d tensor
EmptyTensor == [nd |-> 1, v |-> <<>>]

\* the values of self.min_val / self.max_val.  A dict is the sequence of its
\* items [k, t] in insertion order.
None == [kind |-> "None", t |-> EmptyTensor, d |-> <<>>]

TensorVal(t) == [kind |-> "tensor", t |-> t, d |-> <<>>]

DictVal(d) == [kind |-> "dict", t |-> EmptyTensor, d |-> d]

DictHas(d, k) == \E j \in 1..Len(d) : d[j].k = k

DictGet(d, k) == d[CHOOSE j \in 1..Len(d) : d[j].k = k].t

\* d[k] = t: replaces the value of a present key in place, appends a new key
DictSet(d, k, t) ==
    IF DictHas(d, k)
    THEN Tup([j \in 1..Len(d) |->
                IF d[j].k = k THEN [k |-> k, t |-> t] ELSE d[j]])
    ELSE Append(d, [k |-> k, t |-> t])

\* list(d.values())
DictValues(d) == Tup([j \in 1..Len(d) |-> d[j].t])

\* default of the constructor's averaging_constant, 0.01
DefaultAveragingNum == 1

DefaultAveragingDen == 100

\* averaging constants a caller passes to the constructor; <<>> is "not given"
AveragingGiven == { <<>>, <<Rat(1, 2)>> }

\* the averaging_constant parameter of __init__ with its default
AveragingParameter(given) ==
    IF given = <<>> THEN Rat(DefaultAveragingNum, DefaultAveragingDen)
    ELSE given[1]

NoReturn ==
    [status |-> "none", error |-> "", scale |-> EmptyTensor,
     zero_point |-> EmptyTensor]

\* __init__(quantization_args, averaging_constant=given)
Constructed(args, given) ==
    /\ quantization_args = args
    /\ averaging_arg = given
    /\ averaging_constant = AveragingParameter(averaging_arg)
    /\ min_val = None
    /\ max_val = None
    /\ last_observed = EmptyTensor
    /\ last_reduce_dims = <<>>
    /\ cur_min = None
    /\ cur_max = None
    /\ ret = NoReturn
    /\ calls = 0

\* an observer constructed for any of the arguments
Init ==
    /\ \E args \in QuantizationArgs, given \in AveragingGiven :
           Constructed(args, given)
    /\ NoCheckpoint
    /\ NoModule

\* self.min_val is None and self.max_val is None
Unset(mn, mx) == mn = None /\ mx = None

\* a first observation that zeroes the running statistic instead of taking
\* the current value
FirstStatisticZeros(current) ==
    [nd |-> current.nd,
     v  |-> Tup([r \in 1..Rows(current) |->
               Tup([c \in 1..Cols(current) |-> RInt(0)])])]

\* the running statistic a first observation sets: the current value itself
FirstStatistic(current) == current

\* a moving average with the difference taken the wrong way round:
\* running + averaging_constant * (running - current)
MovingAverageReversed(running, current, c) ==
    [nd |-> Max2(running.nd, current.nd),
     v  |-> Tup([r \in 1..BroadcastRows(running, current) |->
               Tup([cc \in 1..BroadcastCols(running, current) |->
                  RAdd(At(running, r, cc),
                       RMul(c, RSub(At(running, r, cc),
                                    At(current, r, cc))))])])]

\* running + averaging_constant * (current - running), broadcast elementwise
MovingAverage(running, current, c) ==
    [nd |-> Max2(running.nd, current.nd),
     v  |-> Tup([r \in 1..BroadcastRows(running, current) |->
               Tup([cc \in 1..BroadcastCols(running, current) |->
                  RAdd(At(running, r, cc),
                       RMul(c, RSub(At(current, r, cc),
                                    At(running, r, cc))))])])]

\* range(0, columns, step) for an integer step # 0
RangeOffsets(columns, step) ==
    IF step > 0
    THEN Tup([j \in 1..((columns + step - 1) \div step) |-> (j - 1) * step])
    ELSE <<>>

\* a return with the two members of the tuple exchanged
ReturnedSwapped(qparams) ==
    [status |-> "returned", error |-> "", scale |-> qparams[2],
     zero_point |-> qparams[1]]

\* the (scale, zero_point) tuple a call returns
Returned(qparams) ==
    [status |-> "returned", error |-> "", scale |-> qparams[1],
     zero_point |-> qparams[2]]

Raised(error) ==
    [status |-> "raised", error |-> error, scale |-> EmptyTensor,
     zero_point |-> EmptyTensor]

\* the errors a call raises
StepNone == "TypeError: range() step is None"

StepZero == "ValueError: range() step is zero"

LenOfScalar == "TypeError: len() of a 0-d tensor"

NoBroadcast == "RuntimeError: operands do not broadcast"

CatError == "RuntimeError: torch.cat"

\* One pass of the GROUP loop body for the group starting at column i, given
\* the group's current minimum and maximum cm.  st carries the two dicts, the
\* locals of the passes so far and the error raised, if any.
\* self.min_val[i] of a missing key makes the defaultdict insert Tensor(), of
\* length 0; len() of a 0-d tensor raises; the moving average of operands
\* that do not broadcast raises before either dict is assigned.
GroupPassWith(st, i, cm, c) ==
    LET seen == [st EXCEPT !.cur_min = DictSet(st.cur_min, i, cm[1]),
                           !.cur_max = DictSet(st.cur_max, i, cm[2])]
    IN  IF ~DictHas(st.min_val, i)
        THEN [seen EXCEPT
                !.min_val = DictSet(st.min_val, i, FirstStatistic(cm[1])),
                !.max_val = DictSet(st.max_val, i, FirstStatistic(cm[2]))]
        ELSE IF DictGet(st.min_val, i).nd = 0
        THEN [seen EXCEPT !.error = LenOfScalar]
        ELSE IF ~Broadcastable(DictGet(st.min_val, i), cm[1])
        THEN [seen EXCEPT !.error = NoBroadcast]
        ELSE [seen EXCEPT
                !.min_val = DictSet(st.min_val, i,
                               MovingAverage(DictGet(st.min_val, i), cm[1], c)),
                !.max_val = DictSet(st.max_val, i,
                               MovingAverage(DictGet(st.max_val, i), cm[2], c))]

GroupPass(st, i, observed, reduce_dims, group_size, c) ==
    GroupPassWith(st, i,
        CurrentMinMax(SliceCols(observed, i, group_size), reduce_dims), c)

\* for i in range(0, columns, group_size): the passes from the j-th offset on,
\* stopping at the first one that raises
RECURSIVE GroupLoop(_, _, _, _, _, _, _)
GroupLoop(st, offsets, j, observed, reduce_dims, group_size, c) ==
    IF j > Len(offsets) \/ st.error # "" THEN st
    ELSE GroupLoop(GroupPass(st, offsets[j], observed, reduce_dims,
                             group_size, c),
                   offsets, j + 1, observed, reduce_dims, group_size, c)

\* the GROUP branch up to the end of the loop: the dicts are created when
\* both attributes are unset, then range() and the loop run
GroupOutcome(observed, reduce_dims) ==
    LET start == [min_val |-> IF Unset(min_val, max_val) THEN <<>>
                              ELSE min_val.d,
                  max_val |-> IF Unset(min_val, max_val) THEN <<>>
                              ELSE max_val.d,
                  cur_min |-> <<>>, cur_max |-> <<>>, error |-> ""]
        group_size == quantization_args.group_size
    IN  IF group_size = <<>> THEN [start EXCEPT !.error = StepNone]
        ELSE IF group_size[1] = 0 THEN [start EXCEPT !.error = StepZero]
        ELSE GroupLoop(start, RangeOffsets(Cols(observed), group_size[1]),
                       1, observed, reduce_dims, group_size[1],
                       averaging_constant)

\* min_vals = torch.cat(list(self.max_val.values()), dim=1)
GroupMinVals(min_d, max_d) == cat(DictValues(max_d))

\* max_vals = torch.cat(list(self.min_val.values()), dim=1)
GroupMaxVals(min_d, max_d) == cat(DictValues(min_d))

\* the GROUP branch of calculate_qparams
GroupCall(observed, reduce_dims) ==
    \E st \in { GroupOutcome(observed, reduce_dims) } :
        /\ min_val' = DictVal(st.min_val)
        /\ max_val' = DictVal(st.max_val)
        /\ cur_min' = DictVal(st.cur_min)
        /\ cur_max' = DictVal(st.cur_max)
        /\ ret' = IF st.error # "" THEN Raised(st.error)
                  ELSE IF ~CatOk(DictValues(st.max_val)) THEN Raised(CatError)
                  ELSE Returned(calculate_qparams(
                                   GroupMinVals(st.min_val, st.max_val),
                                   GroupMaxVals(st.min_val, st.max_val),
                                   quantization_args))

\* self.min_val, self.max_val = new_min, new_max, and the return
StoreAndReturn(new_min, new_max) ==
    /\ min_val' = TensorVal(new_min)
    /\ max_val' = TensorVal(new_max)
    /\ ret' = Returned(calculate_qparams(new_min, new_max, quantization_args))

\* the branch of every other strategy
TensorCall(observed, reduce_dims) ==
    \E cm \in { CurrentMinMax(observed, reduce_dims) } :
        /\ cur_min' = TensorVal(cm[1])
        /\ cur_max' = TensorVal(cm[2])
        /\ IF Unset(min_val, max_val)
           THEN \E new \in { <<FirstStatistic(cm[1]), FirstStatistic(cm[2])>> } :
                    StoreAndReturn(new[1], new[2])
           ELSE IF ~Broadcastable(min_val.t, cm[1])
           THEN /\ UNCHANGED <<min_val, max_val>>
                /\ ret' = Raised(NoBroadcast)
           ELSE \E new \in { <<MovingAverage(min_val.t, cm[1],
                                             averaging_constant),
                               MovingAverage(max_val.t, cm[2],
                                             averaging_constant)>> } :
                    StoreAndReturn(new[1], new[2])

\* MovingAverageMinMaxObserver.calculate_qparams(observed, reduce_dims)
Observer_calculate_qparams(observed, reduce_dims) ==
    /\ calls < MaxCalls
    /\ calls' = calls + 1
    /\ last_observed' = observed
    /\ last_reduce_dims' = reduce_dims
    /\ IF quantization_args.strategy = "group"
       THEN GroupCall(observed, reduce_dims)
       ELSE TensorCall(observed, reduce_dims)
    /\ UNCHANGED <<quantization_args, averaging_arg, averaging_constant>>
    /\ UNCHANGED <<names_vars, lifecycle_vars>>

Next ==
    \E observed \in Observed, reduce_dims \in ReduceDims :
        Observer_calculate_qparams(observed, reduce_dims)

Spec == Init /\ [][Next]_vars

(***************************************************************************)
(* Properties                                                              *)
(***************************************************************************)
IsGroup == quantization_args.strategy = "group"

\* the statistics a value of self.min_val / self.max_val holds, per slot:
\* the items of a dict, one slot 0 for a tensor, none for None
Slots(x) ==
    IF x.kind = "dict" THEN x.d
    ELSE IF x.kind = "tensor" THEN << [k |-> 0, t |-> x.t] >>
    ELSE <<>>

ShapeOf(t) == <<t.nd, Rows(t), Cols(t)>>

\* the slice of the last observed tensor that slot k reduces
SlotInput(k) ==
    IF IsGroup
    THEN SliceCols(last_observed, k, quantization_args.group_size[1])
    ELSE last_observed

\* C1: after the first call on a fresh observer the running minimum and
\* maximum of every slot (the tensor, or each group by its start offset) are
\* exactly the minimum and maximum of that call's input for the slot, with
\* no blending by averaging_constant.
C1_FirstCallInitializes ==
    calls = 1 =>
        /\ min_val = cur_min
        /\ max_val = cur_max
        /\ \A j \in 1..Len(Slots(min_val)) :
             /\ Slots(max_val)[j].k = Slots(min_val)[j].k
             /\ Slots(min_val)[j].t =
                  CurrentMinMax(SlotInput(Slots(min_val)[j].k),
                                last_reduce_dims)[1]
             /\ Slots(max_val)[j].t =
                  CurrentMinMax(SlotInput(Slots(min_val)[j].k),
                                last_reduce_dims)[2]

\* a first call of a GROUP observer that returned with two groups, the first
\* of them with a minimum below its maximum
C1_Witness ==
    /\ calls = 1
    /\ ret.status = "returned"
    /\ min_val.kind = "dict"
    /\ Len(min_val.d) = 2
    /\ min_val.d[1].t # max_val.d[1].t

\* new = old + averaging_constant * (current - old) in every element, old
\* and current broadcast against each other
IsMovingAverage(old, current, new) ==
    /\ Broadcastable(old, current)
    /\ Rows(new) = BroadcastRows(old, current)
    /\ Cols(new) = BroadcastCols(old, current)
    /\ \A r \in 1..Rows(new), c \in 1..Cols(new) :
         RSub(new.v[r][c], At(old, r, c)) =
            RMul(averaging_constant, RSub(At(current, r, c), At(old, r, c)))

\* the pass of the last call for the j-th current value is the one that raised
PassRaised(j) ==
    /\ ret'.status = "raised"
    /\ ret'.error \in { LenOfScalar, NoBroadcast }
    /\ j = Len(Slots(cur_min'))

C2_Step ==
    /\ averaging_constant' = averaging_constant
    /\ calls >= 1 =>
         \A j \in 1..Len(Slots(cur_min')) :
            LET k == Slots(cur_min')[j].k
            IN  (DictHas(Slots(min_val), k) /\ ~PassRaised(j)) =>
                   /\ IsMovingAverage(DictGet(Slots(min_val), k),
                                      Slots(cur_min')[j].t,
                                      DictGet(Slots(min_val'), k))
                   /\ IsMovingAverage(DictGet(Slots(max_val), k),
                                      Slots(cur_max')[j].t,
                                      DictGet(Slots(max_val'), k))

\* C2: on every call after the first, every slot that has a running value
\* and whose update the call carries out gets running + averaging_constant *
\* (current - running) as its new running minimum and maximum;
\* averaging_constant is 0.01 when the constructor is given none, and no
\* call changes it.
C2_MovingAverageUpdate ==
    /\ [](averaging_arg = <<>> => averaging_constant = <<1, 100>>)
    /\ [][C2_Step]_vars

\* a second call with the default constant that blended a running minimum
\* with a different current minimum
C2_Witness ==
    /\ calls = 2
    /\ ret.status = "returned"
    /\ averaging_arg = <<>>
    /\ min_val # cur_min
    /\ Len(Slots(min_val)) = Len(Slots(cur_min))

\* the items of a dict in ascending order of their keys
RECURSIVE SortedItems(_)
SortedItems(d) ==
    IF d = <<>> THEN <<>>
    ELSE LET j == CHOOSE j \in 1..Len(d) : \A i \in 1..Len(d) : d[j].k <= d[i].k
         IN  <<d[j]>> \o SortedItems(SubSeq(d, 1, j - 1) \o
                                     SubSeq(d, j + 1, Len(d)))

\* C3: with strategy GROUP the returned (scale, zero_point) is, group by
\* group in ascending start-offset order along the column axis, the
\* calculator's result for that group's running minimum as min_val and that
\* group's running maximum as max_val.
C3_GroupQparamsFromOwnMinMax ==
    (IsGroup /\ ret.status = "returned") =>
        /\ ret.scale =
             calculate_qparams(cat(DictValues(SortedItems(min_val.d))),
                               cat(DictValues(SortedItems(max_val.d))),
                               quantization_args)[1]
        /\ ret.zero_point =
             calculate_qparams(cat(DictValues(SortedItems(min_val.d))),
                               cat(DictValues(SortedItems(max_val.d))),
                               quantization_args)[2]

\* group_size is missing, not positive, or does not divide the column count
BadGroupSize(group_size, columns) ==
    \/ group_size = <<>>
    \/ group_size[1] <= 0
    \/ columns % group_size[1] # 0

\* C4: a GROUP call whose group_size is missing, not positive or does not
\* evenly divide the observed column count raises, and the running
\* statistics are after it what they were before it.  Stated for the calls
\* that give reduce_dims: without them a GROUP call raises at torch.cat
\* whatever its group_size.
C4_BadGroupSizeFailsFast ==
    [][(/\ IsGroup
        /\ ~Falsy(last_reduce_dims')
        /\ BadGroupSize(quantization_args.group_size, Cols(last_observed'))) =>
          /\ ret'.status = "raised"
          /\ Slots(min_val') = Slots(min_val)
          /\ Slots(max_val') = Slots(max_val)]_vars

\* a first call has left running statistics behind
Established == calls >= 1 /\ Len(Slots(min_val)) > 0

\* the call of this step reduces over the same dimensions as the last one
\* and gives current statistics of another shape than the running ones:
\* another channel count, or for GROUP another column count
IncompatibleInput ==
    /\ last_reduce_dims' = last_reduce_dims
    /\ IF IsGroup THEN Cols(last_observed') # Cols(last_observed)
       ELSE ShapeOf(cur_min'.t) # ShapeOf(min_val.t)

\* C5: once a first call has established the shape of the running
\* statistics, a later call whose current min/max have an incompatible
\* shape raises and leaves the running min/max unchanged.
C5_ShapeMismatchRaises ==
    [][(Established /\ IncompatibleInput) =>
          /\ ret'.status = "raised"
          /\ min_val' = min_val
          /\ max_val' = max_val]_vars

\* the shape of the running statistics: the start offsets of the groups, or
\* the shape of the one tensor
StatisticsShape(x) ==
    IF x.kind = "dict" THEN { x.d[j].k : j \in 1..Len(x.d) }
    ELSE { ShapeOf(x.t) }

\* C6: after the first call the shape of the running statistics stays the
\* one the first input fixed: the set of group start offsets never grows or
\* shrinks, the shape of min_val and max_val never changes, whatever tensors
\* are observed with the reduce_dims of the first call.
C6_StatisticsShapeFixed ==
    [][(Established /\ last_reduce_dims' = last_reduce_dims) =>
          /\ StatisticsShape(min_val') = StatisticsShape(min_val)
          /\ StatisticsShape(max_val') = StatisticsShape(max_val)]_vars

\* the last call returned a (scale, zero_point) pair
Returns == ret.status = "returned"

ConstantInput == Cardinality(Elements(last_observed)) = 1

Round4(x) == RRound(RMul(RInt(10000), x))

AveragingRange == { <<RInt(0)>>, <<Rat(1, 2)>>, <<RInt(1)>> }

\* observers constructed with a constant of AveragingRange; a GROUP observer
\* only with the constant 1, the one round-to-nearest is compared with
InitAveraging ==
    /\ \E args \in QuantizationArgs, given \in AveragingRange :
           /\ args.strategy = "group" => given = <<RInt(1)>>
           /\ Constructed(args, given)
    /\ NoCheckpoint
    /\ NoModule

SpecAveraging == InitAveraging /\ [][Next]_vars

\* round-to-nearest has a result where its reduction and grouping are
\* defined: a positive group_size and per-group statistics that concatenate
RoundToNearestDefined(args, observed, reduce_dims) ==
    args.strategy = "group" =>
        /\ args.group_size # <<>>
        /\ args.group_size[1] > 0
        /\ ~Falsy(reduce_dims)

\* the current input's minimum (which = 1) or maximum (which = 2), per group
\* in group order along the column axis for GROUP
RoundToNearestMinMax(args, observed, reduce_dims, which) ==
    IF args.strategy = "group"
    THEN LET offsets == RangeOffsets(Cols(observed), args.group_size[1])
         IN  cat(Tup([j \in 1..Len(offsets) |->
                 CurrentMinMax(SliceCols(observed, offsets[j],
                                         args.group_size[1]),
                               reduce_dims)[which]]))
    ELSE CurrentMinMax(observed, reduce_dims)[which]

\* the round-to-nearest observer: min/max of the current input only, handed
\* to the calculator
RoundToNearest_calculate_qparams(args, observed, reduce_dims) ==
    calculate_qparams(RoundToNearestMinMax(args, observed, reduce_dims, 1),
                      RoundToNearestMinMax(args, observed, reduce_dims, 2),
                      args)

\* C11: with averaging_constant = 1 every call of the moving-average
\* observer returns what the round-to-nearest observer returns for the same
\* arguments and the same input: a function of the current input alone.
C11_RoundToNearestIsNoSmoothing ==
    (/\ averaging_constant = RInt(1)
     /\ calls > 0
     /\ RoundToNearestDefined(quantization_args, last_observed,
                              last_reduce_dims)) =>
        /\ Returns
        /\ <<ret.scale, ret.zero_point>> =
              RoundToNearest_calculate_qparams(quantization_args,
                                               last_observed,
                                               last_reduce_dims)

\* min <= max in every position of two statistics of one shape
MinLeqMax(mn, mx) ==
    /\ SameShape(mn, mx)
    /\ \A r \in 1..Rows(mn), c \in 1..Cols(mn) : RLe(mn.v[r][c], mx.v[r][c])

\* C15: for a non-GROUP observer with 0 <= averaging_constant <= 1 the
\* running minimum is elementwise at most the running maximum in every
\* reachable state, so the calculator is never handed min_val > max_val.
C15_RunningMinLeqMax ==
    (/\ ~IsGroup
     /\ RLe(RInt(0), averaging_constant)
     /\ RLe(averaging_constant, RInt(1))
     /\ min_val.kind = "tensor") =>
        /\ max_val.kind = "tensor"
        /\ MinLeqMax(min_val.t, max_val.t)

\* a second call blended per-channel statistics with a different current
\* range and the running minimum stays strictly below the running maximum
C15_Witness ==
    /\ ~IsGroup
    /\ calls = 2
    /\ Returns
    /\ averaging_constant = Rat(1, 2)
    /\ min_val # cur_min
    /\ max_val # cur_max
    /\ \E r \in 1..Rows(min_val.t), c \in 1..Cols(min_val.t) :
           RLt(min_val.t.v[r][c], max_val.t.v[r][c])

(***************************************************************************)
(* Names of checkpoint entries (utils/safetensors_load.py).  A str is the  *)
(* sequence of its characters; an Optional[str] is <<>> for None and <<s>> *)
(* for a str s; a dict is the sequence of its items in insertion order.    *)
(***************************************************************************)
\* number of entries of the checkpoint's weight index
MaxWeights == 2

Dot == <<".">>

Underscore == <<"_">>

Newline == "\n"

Word_scale == <<"s", "c", "a", "l", "e">>

Word_zero_point == <<"z", "e", "r", "o", "_", "p", "o", "i", "n", "t">>

Word_g_idx == <<"g", "_", "i", "d", "x">>

Word_w == <<"w">>

\* uncompressed (parent) layer names: empty, plain, dotted
LayerNames == { <<>>, <<"a">>, <<"a">> \o Dot \o <<"b">> }

\* compression parameter names: identifiers, and one with a dot in it
CompressionParams ==
    { Word_w \o Underscore \o Word_scale,
      Word_zero_point,
      Word_w \o Dot \o Word_g_idx }

\* name.endswith(suffix)
endswith(name, suffix) ==
    /\ Len(name) >= Len(suffix)
    /\ SubSeq(name, Len(name) - Len(suffix) + 1, Len(name)) = suffix

\* is_quantization_param(name)
is_quantization_param(name) ==
    IF endswith(name, Underscore \o Word_scale) THEN TRUE
    ELSE IF endswith(name, Word_zero_point) THEN TRUE
    ELSE IF endswith(name, Word_g_idx) THEN TRUE
    ELSE FALSE

\* merge_names(parent_name, child_name)
merge_names(parent_name, child_name) == parent_name \o Dot \o child_name

\* one character of param_name, spliced unescaped into the pattern, against
\* one character of the name: "." stands for any character but a newline,
\* every other character of the names at hand for itself
PatternCharMatches(pc, ch) == IF pc = "." THEN ch # Newline ELSE pc = ch

\* the lengths k of a prefix of full_name that group 1 of
\* ^(.*)\.<param_name>$ can take: no newline in the group, a literal dot,
\* param_name character by character, and then the end of the string or a
\* newline that ends the string
GroupLengths(full_name, param_name) ==
    { k \in { Len(full_name) - Len(param_name) - 1,
              Len(full_name) - Len(param_name) - 2 } :
        /\ k >= 0
        /\ \A i \in 1..k : full_name[i] # Newline
        /\ full_name[k + 1] = "."
        /\ \A i \in 1..Len(param_name) :
               PatternCharMatches(param_name[i], full_name[k + 1 + i])
        /\ k = Len(full_name) - Len(param_name) - 2 =>
               full_name[Len(full_name)] = Newline }

\* re.findall(pattern, full_name): the pattern is anchored, so at most one
\* match; the greedy group takes the longest prefix that matches
findall(full_name, param_name) ==
    LET ks == GroupLengths(full_name, param_name)
    IN  IF ks = {} THEN <<>>
        ELSE << SubSeq(full_name, 1, CHOOSE k \in ks : \A j \in ks : j <= k) >>

\* match_param_name(full_name, param_name)
match_param_name(full_name, param_name) ==
    LET regex == findall(full_name, param_name)
    IN  IF Len(regex) = 0 THEN <<>> ELSE << regex[1] >>

\* names given to is_quantization_param: the three suffixes with and
\* without the underscore, after nothing, a letter or a dotted prefix
ParamNames ==
    { pre \o tail :
        pre \in { <<>>, Word_w, <<"a">> \o Dot },
        tail \in { Underscore \o Word_scale, Word_scale,
                   Underscore \o Word_zero_point, Word_zero_point,
                   Underscore \o Word_g_idx, Word_g_idx,
                   Word_w, Underscore \o Word_scale \o <<"s">> } }

\* names given to match_param_name: merged names, and names that are not
\* merged from the parameter they are matched against
FullNames ==
    { merge_names(parent, c) : parent \in LayerNames, c \in CompressionParams }
    \cup { Word_w \o Underscore \o Word_scale,
           <<"a">> \o Word_zero_point,
           <<"a">> \o Dot \o Word_w \o Underscore \o Word_g_idx,
           <<"a">> \o Dot \o Word_zero_point \o <<Newline>> }

\* keys of a checkpoint's weight index
CheckpointNames ==
    { <<"a">> \o Dot \o Word_w,
      <<"a">> \o Dot \o Word_w \o Underscore \o Word_scale,
      <<"a">> \o Dot \o Word_w \o Underscore \o Word_zero_point,
      <<"a">> \o Dot \o Word_zero_point,
      <<"a">> \o Dot \o Word_w \o Underscore \o Word_g_idx,
      <<"a">> \o Dot \o Word_w \o Dot \o Word_g_idx }

\* the file every entry lives in (a single-file checkpoint)
SAFE_WEIGHTS_NAME == "model.safetensors"

\* get_weight_mappings(model_path): a dict of up to MaxWeights distinct keys
WeightMappings ==
    { wm \in UNION { [1..n -> [name : CheckpointNames,
                              path : {SAFE_WEIGHTS_NAME}]] :
                     n \in 0..MaxWeights } :
        \A i, j \in 1..Len(wm) : i # j => wm[i].name # wm[j].name }

RECURSIVE SelectItems(_, _)
\* the items of a dict whose key passes a test given as a set of keys
SelectItems(wm, keep) ==
    IF wm = <<>> THEN <<>>
    ELSE (IF wm[1].name \in keep THEN <<wm[1]>> ELSE <<>>)
         \o SelectItems(Tail(wm), keep)

\* get_quantization_state_dict: the entries whose name passes
\* is_quantization_param, read from their file, in the index's order
get_quantization_state_dict(wm) ==
    SelectItems(wm, { wm[j].name : j \in { i \in 1..Len(wm) :
                                           is_quantization_param(wm[i].name) } })

\* the loop of get_nested_weight_mappings: (key, param_name) pairs in loop
\* order that match, as indexes into the index and into params_to_nest
NestedMatches(wm, params_to_nest) ==
    { jk \in (1..Len(wm)) \X (1..Len(params_to_nest)) :
        match_param_name(wm[jk[1]].name, params_to_nest[jk[2]]) # <<>> }

\* nested_weight_mappings[dense_param][param_name] = weight_mappings[key]:
\* of two assignments to one slot the later one stays
NestedWeightMappings(wm, params_to_nest) ==
    LET M == NestedMatches(wm, params_to_nest)
        dense(jk) == match_param_name(wm[jk[1]].name, params_to_nest[jk[2]])[1]
        later(a, b) == a[1] < b[1] \/ (a[1] = b[1] /\ a[2] < b[2])
    IN  { [dense |-> dense(jk), param |-> params_to_nest[jk[2]],
           path |-> wm[jk[1]].path, key |-> wm[jk[1]].name] :
          jk \in { a \in M : ~\E b \in M :
                      /\ later(a, b)
                      /\ dense(b) = dense(a)
                      /\ params_to_nest[b[2]] = params_to_nest[a[2]] } }

\* other_params: the entries no param_name matched
OtherParams(wm, params_to_nest) ==
    SelectItems(wm, { wm[j].name : j \in { i \in 1..Len(wm) :
        ~\E jk \in NestedMatches(wm, params_to_nest) : jk[1] = i } })

\* get_nested_weight_mappings(model_path, params_to_nest, return_other_params)
get_nested_weight_mappings(wm, params_to_nest, return_other_params) ==
    IF ~return_other_params THEN << NestedWeightMappings(wm, params_to_nest) >>
    ELSE << NestedWeightMappings(wm, params_to_nest),
            OtherParams(wm, params_to_nest) >>

\* params_to_nest: one or two distinct compression parameter names
ParamsToNest ==
    { <<c>> : c \in CompressionParams }
    \cup { cs \in CompressionParams \X CompressionParams : cs[1] # cs[2] }

\* a call of safetensors_load.py that returned
NameCall(fn, args, result) ==
    [fn |-> fn, args |-> args, status |-> "returned", result |-> result]

IsQuantizationParam(name) ==
    /\ names_call' = NameCall("is_quantization_param", <<name>>,
                              is_quantization_param(name))
    /\ UNCHANGED <<weight_mappings, observer_vars, lifecycle_vars>>

MergeNames(parent_name, child_name) ==
    /\ names_call' = NameCall("merge_names", <<parent_name, child_name>>,
                              merge_names(parent_name, child_name))
    /\ UNCHANGED <<weight_mappings, observer_vars, lifecycle_vars>>

MatchParamName(full_name, param_name) ==
    /\ names_call' = NameCall("match_param_name", <<full_name, param_name>>,
                              match_param_name(full_name, param_name))
    /\ UNCHANGED <<weight_mappings, observer_vars, lifecycle_vars>>

GetQuantizationStateDict ==
    /\ names_call' = NameCall("get_quantization_state_dict", <<>>,
                              get_quantization_state_dict(weight_mappings))
    /\ UNCHANGED <<weight_mappings, observer_vars, lifecycle_vars>>

GetNestedWeightMappings(params_to_nest, return_other_params) ==
    /\ names_call' = NameCall("get_nested_weight_mappings",
                              <<params_to_nest, return_other_params>>,
                              get_nested_weight_mappings(weight_mappings,
                                                         params_to_nest,
                                                         return_other_params))
    /\ UNCHANGED <<weight_mappings, observer_vars, lifecycle_vars>>

\* the arguments QuantizationArgs() has by default
DefaultArgs ==
    [num_bits |-> 8, symmetric |-> TRUE, strategy |-> "tensor",
     group_size |-> <<>>]

\* a checkpoint's index has been read; the observer is not used
InitNames ==
    /\ weight_mappings \in WeightMappings
    /\ names_call = NoCall
    /\ Constructed(DefaultArgs, <<>>)
    /\ NoModule

NextNames ==
    \/ \E name \in ParamNames : IsQuantizationParam(name)
    \/ \E parent \in LayerNames, c \in CompressionParams : MergeNames(parent, c)
    \/ \E full \in FullNames, c \in CompressionParams : MatchParamName(full, c)
    \/ GetQuantizationStateDict
    \/ \E params \in ParamsToNest, other \in BOOLEAN :
           GetNestedWeightMappings(params, other)

SpecNames == InitNames /\ [][NextNames]_vars

\* the three suffixes of the persisted artifact layout
QuantizationSuffixes ==
    { Underscore \o Word_scale, Underscore \o Word_zero_point,
      Underscore \o Word_g_idx }

EndsInQuantizationSuffix(name) ==
    \E suffix \in QuantizationSuffixes : endswith(name, suffix)

\* C12: is_quantization_param(name) is True exactly when name ends in
\* _scale, _zero_point or _g_idx, and get_quantization_state_dict keeps
\* exactly the entries of the weight index whose names end in one of them.
C12_QuantizationParamSuffixes ==
    /\ names_call.fn = "is_quantization_param" =>
          (names_call.result <=> EndsInQuantizationSuffix(names_call.args[1]))
    /\ names_call.fn = "get_quantization_state_dict" =>
          names_call.result =
             SelectItems(weight_mappings,
                         { n \in CheckpointNames : EndsInQuantizationSuffix(n) })

\* C13: match_param_name(merge_names(p, c), c) is p for every parent name p
\* and compression parameter name c, and match_param_name(full, c) is None
\* when full does not end in "." followed by c.
C13_MergeMatchRoundTrip ==
    /\ names_call.fn = "merge_names" =>
          match_param_name(names_call.result, names_call.args[2])
             = << names_call.args[1] >>
    /\ (/\ names_call.fn = "match_param_name"
        /\ ~endswith(names_call.args[1], Dot \o names_call.args[2])) =>
          names_call.result = <<>>

(***************************************************************************)
(* Module lifecycle (lifecycle/initialize.py).  A module is a record of    *)
(* the attributes the lifecycle reads and writes; the name f"{base}_x" is  *)
(* the pair <<base, "_x">>.                                                *)
(***************************************************************************)
\* largest number of output channels (rows) of a weight
MaxOut == 2

\* largest number of input features (columns) of a weight
MaxIn == 3

\* the fields QuantizationArgs declares
ArgsFields ==
    { "num_bits", "type", "symmetric", "strategy", "group_size",
      "block_structure", "observer", "observer_kwargs" }

\* the arguments of a scheme's weights: every strategy and group_size
LifecycleArgs ==
    { a \in QuantizationArgs : a.num_bits = 8 /\ a.symmetric }

\* QuantizationScheme: optional arguments for inputs, weights and outputs
Schemes ==
    [input_activations : { <<>>, <<DefaultArgs>> },
     weights : { <<>> } \cup { <<a>> : a \in LifecycleArgs },
     output_activations : { <<>>, <<DefaultArgs>> }]

\* schemes a module carries in its quantization_scheme attribute
AttachedSchemes ==
    { sch \in Schemes :
        /\ sch.input_activations = <<>>
        /\ sch.output_activations = <<>>
        /\ sch.weights # <<>>
        /\ sch.weights[1].strategy = "channel" }

\* a module before initialization
NewModule(kind, has_weight, weight_shape, scheme) ==
    [kind |-> kind, has_weight |-> has_weight, weight_shape |-> weight_shape,
     quantization_scheme |-> scheme, quantization_status |-> <<>>,
     submodules |-> {}, parameters |-> {}]

WeightShapes == (1..MaxOut) \X (1..MaxIn)

\* Linear layers of every weight shape, a layer that is not Linear but has
\* a weight, and a layer without a weight
Modules ==
    { NewModule("Linear", TRUE, shape, sch) :
        shape \in WeightShapes,
        sch \in { <<>> } \cup { <<a>> : a \in AttachedSchemes } }
    \cup { NewModule("Embedding", TRUE, <<MaxOut, MaxIn>>, sch) :
             sch \in { <<>> } \cup { <<a>> : a \in AttachedSchemes } }
    \cup { NewModule("ReLU", FALSE, <<>>, sch) :
             sch \in { <<>> } \cup { <<a>> : a \in AttachedSchemes } }

BaseNames == { "input", "weight", "output" }

LifecycleReturned(fn, args) ==
    [fn |-> fn, args |-> args, status |-> "returned", result |-> <<>>]

LifecycleRaised(fn, args, error) ==
    [fn |-> fn, args |-> args, status |-> "raised", result |-> error]

\* QuantizedCache.register(hex(id(module))): register takes keyword
\* arguments only
RegisterError ==
    "TypeError: register() takes 0 positional arguments but 1 was given"

\* quantization_args.dynamic: QuantizationArgs declares no such field
NoDynamic == "AttributeError: QuantizationArgs has no attribute dynamic"

\* breakpoint() left by quitting the debugger
BdbQuit == "BdbQuit"

GroupSizeNone == "TypeError: unsupported operand type for //: int and NoneType"

GroupSizeZero == "ZeroDivisionError: integer division or modulo by zero"

\* scheme = scheme or getattr(module, "quantization_scheme", None)
EffectiveScheme(m, scheme) ==
    IF scheme # <<>> THEN scheme ELSE m.quantization_scheme

\* initialize_module_for_quantization(module, scheme): without a scheme the
\* layer is skipped; with one, the call of QuantizedCache.register raises
\* before the module is touched, so lines 69-128 are not reached
InitializeModuleForQuantization(scheme) ==
    /\ IF EffectiveScheme(module, scheme) = <<>>
       THEN lifecycle_call' =
               LifecycleReturned("initialize_module_for_quantization",
                                 <<scheme>>)
       ELSE lifecycle_call' =
               LifecycleRaised("initialize_module_for_quantization",
                               <<scheme>>, RegisterError)
    /\ UNCHANGED <<module, observer_vars, names_vars>>

\* weight_shape[1] // group_size, Python's floor division
FloorDiv(a, b) ==
    IF b > 0 THEN a \div b ELSE -((a + (-b) - 1) \div (-b))

\* the expected scale/zero point shape inferred in lines 185-196: 1 per
\* tensor, (output_channels, 1) per channel, (rows, columns // group_size)
\* per group
ExpectedShape(base_name, args, weight_shape) ==
    IF base_name = "weight" /\ weight_shape # <<>>
    THEN IF args.strategy = "channel"
         THEN [error |-> "", shape |-> <<weight_shape[1], 1>>]
         ELSE IF args.strategy = "group"
         THEN IF args.group_size = <<>>
              THEN [error |-> GroupSizeNone, shape |-> <<>>]
              ELSE IF args.group_size[1] = 0
              THEN [error |-> GroupSizeZero, shape |-> <<>>]
              ELSE [error |-> "",
                    shape |-> <<weight_shape[1],
                                FloorDiv(weight_shape[2],
                                         args.group_size[1])>>]
         ELSE [error |-> "", shape |-> <<1>>]
    ELSE [error |-> "", shape |-> <<1>>]

\* module.register_module(f"{base_name}_observer", observer)
RegisterObserver(m, base_name) ==
    [m EXCEPT !.submodules = @ \cup { <<base_name, "_observer">> }]

\* _initialize_scale_zero_point_observer(module, base_name,
\* quantization_args, weight_shape): the debugger is entered and either
\* quit or continued; the observer is registered; reading
\* quantization_args.dynamic raises, so no parameter is registered
InitializeScaleZeroPointObserver(base_name, args, weight_shape, debugger) ==
    /\ weight_shape \in { <<>> } \cup
          (IF module.kind = "Linear" THEN { module.weight_shape } ELSE {})
    /\ IF debugger = "quit"
       THEN /\ module' = module
            /\ lifecycle_call' =
                  LifecycleRaised("_initialize_scale_zero_point_observer",
                                  <<base_name, args, weight_shape>>, BdbQuit)
       ELSE /\ module' = RegisterObserver(module, base_name)
            /\ "dynamic" \notin ArgsFields
            /\ lifecycle_call' =
                  LifecycleRaised("_initialize_scale_zero_point_observer",
                                  <<base_name, args, weight_shape>>, NoDynamic)
    /\ UNCHANGED <<observer_vars, names_vars>>

\* a module is at hand; checkpoint and observer are not used
InitLifecycle ==
    /\ module \in Modules
    /\ lifecycle_call = NoCall
    /\ Constructed(DefaultArgs, <<>>)
    /\ NoCheckpoint

NextLifecycle ==
    \/ \E scheme \in { <<>> } \cup { <<sch>> : sch \in Schemes } :
           InitializeModuleForQuantization(scheme)
    \/ \E base_name \in BaseNames, args \in LifecycleArgs,
          weight_shape \in { <<>> } \cup WeightShapes,
          debugger \in { "continue", "quit" } :
           InitializeScaleZeroPointObserver(base_name, args, weight_shape,
                                            debugger)

SpecLifecycle == InitLifecycle /\ [][NextLifecycle]_vars

\* the bases of a scheme that are to be quantized on a module
QuantizedBases(m, sch) ==
    { b \in BaseNames :
        \/ b = "input" /\ sch.input_activations # <<>>
        \/ b = "weight" /\ sch.weights # <<>> /\ m.has_weight
        \/ b = "output" /\ sch.output_activations # <<>> }

HasParameter(m, base_name, suffix) ==
    \E q \in m.parameters : q.name = <<base_name, suffix>>

\* C14: initialize_module_for_quantization returns and leaves the module as
\* it was when there is no scheme; otherwise it returns with
\* quantization_status INITIALIZED, quantization_scheme the scheme, and an
\* observer, a scale and a zero_point for every base the scheme quantizes.
C14_Step ==
    lifecycle_call'.fn = "initialize_module_for_quantization" =>
        LET sch == EffectiveScheme(module, lifecycle_call'.args[1])
        IN  /\ lifecycle_call'.status = "returned"
            /\ sch = <<>> => module' = module
            /\ sch # <<>> =>
                  /\ module'.quantization_status = <<"initialized">>
                  /\ module'.quantization_scheme = sch
                  /\ \A b \in QuantizedBases(module, sch[1]) :
                        /\ <<b, "_observer">> \in module'.submodules
                        /\ HasParameter(module', b, "_scale")
                        /\ HasParameter(module', b, "_zero_point")

C14_InitializeModule == [][C14_Step]_vars

\* a weight of zeros of a given shape
ZeroWeight(shape) ==
    [nd |-> 2,
     v  |-> Tup([r \in 1..shape[1] |-> Tup([c \in 1..shape[2] |-> RInt(0)])])]

\* <<rows, columns>> of what a fresh observer returns for a weight of a
\* shape reduced over the column axis: per channel the reduced weight, per
\* group the per-group reductions concatenated along the columns
ObserverReturnShape(args, shape) ==
    LET w == ZeroWeight(shape)
        t == IF args.strategy = "group"
             THEN LET offsets == RangeOffsets(Cols(w), args.group_size[1])
                  IN  cat(Tup([j \in 1..Len(offsets) |->
                          amin(SliceCols(w, offsets[j], args.group_size[1]),
                               <<1>>)]))
             ELSE amin(w, <<1>>)
    IN  <<Rows(t), Cols(t)>>

\* C16: for a Linear weight of shape (O, I) the scale and zero_point that
\* _initialize_scale_zero_point_observer registers have the shape of what
\* the observer returns for that weight reduced over the columns, (O, 1)
\* for CHANNEL and the observer's number of groups for GROUP with a positive
\* group_size, whether or not it divides I.
C16_RegisteredShapeIsObserverShape ==
    (/\ lifecycle_call.fn = "_initialize_scale_zero_point_observer"
     /\ lifecycle_call.args[1] = "weight"
     /\ lifecycle_call.args[3] # <<>>
     /\ \/ lifecycle_call.args[2].strategy = "channel"
        \/ /\ lifecycle_call.args[2].strategy = "group"
           /\ lifecycle_call.args[2].group_size # <<>>
           /\ lifecycle_call.args[2].group_size[1] > 0) =>
        LET args == lifecycle_call.args[2]
            shape == ObserverReturnShape(args, lifecycle_call.args[3])
        IN  /\ ExpectedShape("weight", args, lifecycle_call.args[3]).shape
                  = shape
            /\ \A suffix \in { "_scale", "_zero_point" } :
                  \E q \in module.parameters :
                      q.name = <<"weight", suffix>> /\ q.shape = shape

=============================================================================
